---- MODULE Spec2Model ----
(***************************************************************************)
(* A model of dask.distributed.scheduler.Scheduler: the placement index    *)
(* (who_has / worker_has), the idle pool available_workers, active_tasks,  *)
(* the queue registry, the handlers that the listener dispatches to the    *)
(* thread pool, and the routines scatter, gather, release_key, schedule.   *)
(* Handlers and routines run on separate threads and take no lock around   *)
(* the shared collections, so every statement that touches shared state is *)
(* a step of its own.                                                      *)
(***************************************************************************)
EXTENDS Integers, Sequences, FiniteSets, Bags, TLC

\* ------------------------------------------------------------------ bounds
Workers == {"w1", "w2"}
Keys == {"x", "y", "z"}
KeySeq == <<"x", "y", "z">>
MaxRegister == 2
MaxCalls == 3

RunThreads == {"r1"}
PairThreads == {"r1", "r2"}
ApiThreads == {"c1"}
Threads == RunThreads \cup PairThreads \cup ApiThreads

NoQueue == <<>>

VARIABLES
    workers,            \* self.workers: the registered addresses, in dict order
    who_has,            \* self.who_has: key -> set of workers
    worker_has,         \* self.worker_has: worker -> set of keys
    available_workers,  \* self.available_workers: FIFO queue of addresses
    active_tasks,       \* self.active_tasks
    queues,             \* self.queues: queue name -> items
    th,                 \* the threads that call schedule / scatter / gather / release_key
    dag,                \* each schedule call's dag_state
    handlers,           \* handler invocations running in self.pool (a bag)
    inbox,              \* frames sent to each worker and not yet processed by it
    wdata,              \* each worker's local store
    nreg,               \* register frames sent so far
    last,               \* the handler or routine that returned in the last step
    acked               \* keys whose setitem-ack has reached setitem_ack

vars == <<workers, who_has, worker_has, available_workers, active_tasks, queues,
          th, dag, handlers, inbox, wdata, nreg, last, acked>>

\* ------------------------------------------------------------------ values
Leaf(k) == [leaf |-> k]
List(s) == [list |-> s]
IsList(s) == "list" \in DOMAIN s

Lit(v) == [istask |-> FALSE, deps |-> {}, value |-> v]
Task(D) == [istask |-> TRUE, deps |-> D, value |-> "none"]

Range(s) == {s[i] : i \in DOMAIN s}
Perms(S) == {s \in [1..Cardinality(S) -> S] : \A i, j \in 1..Cardinality(S) : i # j => s[i] # s[j]}
SortKeys(S) == SelectSeq(KeySeq, LAMBDA k : k \in S)
Without(f, k) == [a \in DOMAIN f \ {k} |-> f[a]]
Put(f, k, v) == [a \in DOMAIN f \cup {k} |-> IF a = k THEN v ELSE f[a]]
EmptyMap == [a \in {} |-> {}]

\* dask.core.flatten over a key or a nested list of keys
RECURSIVE flatten(_), flattenAll(_)
flattenAll(ss) == IF ss = <<>> THEN <<>> ELSE flatten(Head(ss)) \o flattenAll(Tail(ss))
flatten(s) == IF IsList(s) THEN flattenAll(s.list) ELSE <<s.leaf>>

\* dask.core.get(cache, keys): the nested shape with every key replaced by cache[key]
RECURSIVE core_get(_, _)
core_get(cache, s) ==
    IF IsList(s) THEN List([i \in 1..Len(s.list) |-> core_get(cache, s.list[i])])
    ELSE Leaf(cache[s.leaf])

\* dask.core.get_dependencies
get_dependencies(dsk, key) == dsk[key].deps

dependents(dsk, key) == {k \in DOMAIN dsk : key \in dsk[k].deps}

\* --------------------------------------------------------- DAG state helper
NoDag == [built |-> FALSE, waiting |-> EmptyMap, ready |-> <<>>, running |-> {},
          finished |-> {}, released |-> {}, waiting_data |-> EmptyMap]

\* dask.async.start_state_from_dask: literals go to the cache, a task waits on
\* its dependencies that are not literals, a task that waits on nothing is ready.
CacheKeys(dsk) == {k \in DOMAIN dsk : ~dsk[k].istask}

dag_state_from_dask(dsk) ==
    LET cache == CacheKeys(dsk)
        tasks == DOMAIN dsk \ cache
        w == [k \in tasks |-> dsk[k].deps \ cache]
        wk == {k \in tasks : w[k] # {}}
        wd == {k \in DOMAIN dsk : dependents(dsk, k) # {}}
    IN [built |-> TRUE,
        waiting |-> [k \in wk |-> w[k]],
        ready |-> SortKeys(tasks \ wk),
        running |-> {},
        finished |-> {},
        released |-> {},
        waiting_data |-> [k \in wd |-> dependents(dsk, k)]]

\* dask.async.finish_task, up to its calls of release_data: key leaves running,
\* every dependent that waited on key alone becomes ready; the result also names
\* the dependencies that nothing waits for any more and that are not requested.
NewlyReady(d, dsk, key) ==
    {k \in dependents(dsk, key) \cap DOMAIN d.waiting : d.waiting[k] \ {key} = {}}

ToRelease(d, dsk, key, results) ==
    {k \in dsk[key].deps \cap DOMAIN d.waiting_data :
        d.waiting_data[k] \ {key} = {} /\ k \notin results}

finish_task(d, dsk, key) ==
    LET nr == NewlyReady(d, dsk, key)
        wkeys == DOMAIN d.waiting \ nr
    IN [d EXCEPT
         !.waiting = [k \in wkeys |-> d.waiting[k] \ {key}],
         !.ready = d.ready \o SortKeys(nr),
         !.waiting_data = [k \in DOMAIN d.waiting_data |-> d.waiting_data[k] \ {key}],
         !.finished = d.finished \cup {key},
         !.running = d.running \ {key}]

\* ------------------------------------------------------------------ state
NoThread ==
    [pc |-> "idle", op |-> "none", dsk |-> EmptyMap, result |-> List(<<>>),
     items |-> <<>>, wl |-> <<>>, wi |-> 1, counter |-> 0, qkey |-> NoQueue,
     eq |-> NoQueue, nq |-> 0, key |-> "none", torel |-> <<>>, relkey |-> "none",
     relworkers |-> <<>>, leaves |-> <<>>, n |-> 0, cache |-> EmptyMap,
     retval |-> List(<<>>), err |-> "none", ret |-> "idle", fired |-> {},
     ndel |-> 0, calls |-> 0, m |-> EmptyMap, fresh |-> FALSE, pool0 |-> 0,
     sent |-> <<>>, errval |-> "none", acks |-> <<>>,
     snap |-> [who_has |-> [k \in Keys |-> {}], worker_has |-> [w \in Workers |-> {}],
               queues |-> EmptyMap],
     prev |-> [op |-> "none", key |-> "none", ndel |-> 0, m |-> EmptyMap,
               wl |-> <<>>, fresh |-> FALSE]]

\* What a thread remembers of the call it made before the current one
Previous(rec) ==
    [op |-> rec.op, key |-> rec.relkey, ndel |-> rec.ndel, m |-> rec.m,
     wl |-> rec.wl, fresh |-> rec.fresh]

Init ==
    /\ workers = <<>>
    /\ who_has = [k \in Keys |-> {}]
    /\ worker_has = [w \in Workers |-> {}]
    /\ available_workers = <<>>
    /\ active_tasks = {}
    /\ queues = EmptyMap
    /\ th = [t \in Threads |-> NoThread]
    /\ dag = [t \in Threads |-> NoDag]
    /\ handlers = EmptyBag
    /\ inbox = [w \in Workers |-> <<>>]
    /\ wdata = [w \in Workers |-> [k \in Keys |-> "none"]]
    /\ nreg = 0
    /\ last = ""
    /\ acked = {}

\* A frame the listener has handed to self.pool (listen_to_workers).
Handler(fn, address, key, deps, queue, status, value) ==
    [fn |-> fn, address |-> address, key |-> key, deps |-> deps, queue |-> queue,
     status |-> status, value |-> value, pc |-> 1, i |-> 1]

Spawn(h) == handlers (+) SetToBag({h})
Advance(h, new) == (handlers (-) SetToBag({h})) (+) SetToBag({new})
Finish(h) == handlers (-) SetToBag({h})
Running(fn, pc) == {h \in BagToSet(handlers) : h.fn = fn /\ h.pc = pc}

\* send_to_worker: the frame joins the worker's stream of frames
Msg(function, key, value, queue, deps, locations) ==
    [function |-> function, key |-> key, value |-> value, queue |-> queue,
     deps |-> deps, locations |-> locations]

send_to_worker(w, m) == [inbox EXCEPT ![w] = Append(@, m)]

\* ---------------------------------------------------------------- handlers
\* worker_registration: self.workers[address] = payload
Register1(h) ==
    /\ h \in Running("register", 1)
    /\ workers' = IF h.address \in Range(workers) THEN workers
                  ELSE Append(workers, h.address)
    /\ handlers' = Advance(h, [h EXCEPT !.pc = 2])
    /\ last' = ""
    /\ UNCHANGED <<who_has, worker_has, available_workers, active_tasks, queues,
                   th, dag, inbox, wdata, nreg, acked>>

PoolPut(pool, w) == Append(pool, w)

\* worker_registration: self.available_workers.put(address)
Register2(h) ==
    /\ h \in Running("register", 2)
    /\ available_workers' = PoolPut(available_workers, h.address)
    /\ handlers' = Finish(h)
    /\ last' = "worker_registration"
    /\ UNCHANGED <<workers, who_has, worker_has, active_tasks, queues, th, dag,
                   inbox, wdata, nreg, acked>>

\* setitem_ack: self.who_has[key].add(address)
SetitemAck1(h) ==
    /\ h \in Running("setitem-ack", 1)
    /\ who_has' = [who_has EXCEPT ![h.key] = @ \cup {h.address}]
    /\ acked' = acked \cup {h.key}
    /\ handlers' = Advance(h, [h EXCEPT !.pc = 2])
    /\ last' = ""
    /\ UNCHANGED <<workers, worker_has, available_workers, active_tasks, queues,
                   th, dag, inbox, wdata, nreg>>

\* setitem_ack: self.worker_has[address].add(key); returns when there is no queue
SetitemAck2(h) ==
    /\ h \in Running("setitem-ack", 2)
    /\ worker_has' = [worker_has EXCEPT ![h.address] = @ \cup {h.key}]
    /\ handlers' = IF h.queue = NoQueue THEN Finish(h)
                   ELSE Advance(h, [h EXCEPT !.pc = 3])
    /\ last' = IF h.queue = NoQueue THEN "setitem_ack" ELSE ""
    /\ UNCHANGED <<workers, who_has, available_workers, active_tasks, queues,
                   th, dag, inbox, wdata, nreg, acked>>

\* setitem_ack: self.queues[queue].put(key), a KeyError when the name is gone
SetitemAck3(h) ==
    /\ h \in Running("setitem-ack", 3)
    /\ queues' = IF h.queue \in DOMAIN queues
                 THEN [queues EXCEPT ![h.queue] = Append(@, h.key)]
                 ELSE queues
    /\ handlers' = Finish(h)
    /\ last' = IF h.queue \in DOMAIN queues THEN "setitem_ack" ELSE ""
    /\ UNCHANGED <<workers, who_has, worker_has, available_workers, active_tasks,
                   th, dag, inbox, wdata, nreg, acked>>

\* getitem_ack: assert header['status'] == 'OK', then the put on the queue
GetitemAck(h) ==
    /\ h \in Running("getitem-ack", 1)
    /\ queues' = IF h.status = "OK" /\ h.queue \in DOMAIN queues
                 THEN [queues EXCEPT ![h.queue] = Append(@, <<h.key, h.value>>)]
                 ELSE queues
    /\ handlers' = Finish(h)
    /\ last' = IF h.status = "OK" /\ h.queue \in DOMAIN queues THEN "getitem_ack" ELSE ""
    /\ UNCHANGED <<workers, who_has, worker_has, available_workers, active_tasks,
                   th, dag, inbox, wdata, nreg, acked>>

\* worker_finished_task: self.active_tasks.remove(key); set.remove raises KeyError
\* when the key is not there, and the handler ends at that line.
Finished1(h) ==
    /\ h \in Running("finished-task", 1)
    /\ active_tasks' = active_tasks \ {h.key}
    /\ handlers' = IF h.key \in active_tasks THEN Advance(h, [h EXCEPT !.pc = 2])
                   ELSE Finish(h)
    /\ last' = ""
    /\ UNCHANGED <<workers, who_has, worker_has, available_workers, queues, th,
                   dag, inbox, wdata, nreg, acked>>

HoldsNothing(has, key, address) == has

\* worker_finished_task: self.who_has[key].add(address)
Holds(has, key, address) == [has EXCEPT ![key] = @ \cup {address}]

\* worker_finished_task: self.who_has[key].add(address)
Finished2(h) ==
    /\ h \in Running("finished-task", 2)
    /\ who_has' = Holds(who_has, h.key, h.address)
    /\ handlers' = Advance(h, [h EXCEPT !.pc = 3])
    /\ last' = ""
    /\ UNCHANGED <<workers, worker_has, available_workers, active_tasks, queues,
                   th, dag, inbox, wdata, nreg, acked>>

\* worker_finished_task: self.worker_has[address].add(key)
Finished3(h) ==
    /\ h \in Running("finished-task", 3)
    /\ worker_has' = [worker_has EXCEPT ![h.address] = @ \cup {h.key}]
    /\ handlers' = Advance(h, [h EXCEPT !.pc = IF h.deps = <<>> THEN 6 ELSE 4])
    /\ last' = ""
    /\ UNCHANGED <<workers, who_has, available_workers, active_tasks, queues,
                   th, dag, inbox, wdata, nreg, acked>>

\* worker_finished_task, for dep in dependencies: self.who_has[dep].add(address)
Finished4(h) ==
    /\ h \in Running("finished-task", 4)
    /\ who_has' = [who_has EXCEPT ![h.deps[h.i]] = @ \cup {h.address}]
    /\ handlers' = Advance(h, [h EXCEPT !.pc = 5])
    /\ last' = ""
    /\ UNCHANGED <<workers, worker_has, available_workers, active_tasks, queues,
                   th, dag, inbox, wdata, nreg, acked>>

\* worker_finished_task, for dep in dependencies: self.worker_has[address].add(dep)
Finished5(h) ==
    /\ h \in Running("finished-task", 5)
    /\ worker_has' = [worker_has EXCEPT ![h.address] = @ \cup {h.deps[h.i]}]
    /\ handlers' = Advance(h, [h EXCEPT !.i = @ + 1,
                                        !.pc = IF h.i < Len(h.deps) THEN 4 ELSE 6])
    /\ last' = ""
    /\ UNCHANGED <<workers, who_has, available_workers, active_tasks, queues,
                   th, dag, inbox, wdata, nreg, acked>>

\* worker_finished_task: self.available_workers.put(address)
Finished6(h) ==
    /\ h \in Running("finished-task", 6)
    /\ available_workers' = PoolPut(available_workers, h.address)
    /\ handlers' = Advance(h, [h EXCEPT !.pc = 7])
    /\ last' = ""
    /\ UNCHANGED <<workers, who_has, worker_has, active_tasks, queues, th, dag,
                   inbox, wdata, nreg, acked>>

EventQueueOfFirstRun(h) == th["r1"].eq

\* worker_finished_task: the queue named by payload['queue']
EventQueue(h) == h.queue

\* worker_finished_task: self.queues[payload['queue']].put(payload)
Finished7(h) ==
    /\ h \in Running("finished-task", 7)
    /\ queues' = IF EventQueue(h) \in DOMAIN queues
                 THEN [queues EXCEPT ![EventQueue(h)] =
                         Append(@, [key |-> h.key, status |-> h.status,
                                    queue |-> h.queue, address |-> h.address,
                                    dependencies |-> h.deps])]
                 ELSE queues
    /\ handlers' = Finish(h)
    /\ last' = IF EventQueue(h) \in DOMAIN queues THEN "worker_finished_task" ELSE ""
    /\ UNCHANGED <<workers, who_has, worker_has, available_workers, active_tasks,
                   th, dag, inbox, wdata, nreg, acked>>

\* ----------------------------------------------------------------- workers
\* A worker announces itself: a register frame reaches the listener.
WorkerRegister(w) ==
    /\ nreg < MaxRegister
    /\ nreg' = nreg + 1
    /\ handlers' = Spawn(Handler("register", w, "none", <<>>, NoQueue, "OK", "none"))
    /\ last' = ""
    /\ UNCHANGED <<workers, who_has, worker_has, available_workers, active_tasks,
                   queues, th, dag, inbox, wdata, acked>>

NextFrame(w, function) == inbox[w] # <<>> /\ Head(inbox[w]).function = function

\* Worker: setitem stores the value and answers setitem-ack {key, queue}
WorkerSetitem(w) ==
    /\ NextFrame(w, "setitem")
    /\ LET m == Head(inbox[w]) IN
        /\ wdata' = [wdata EXCEPT ![w][m.key] = m.value]
        /\ handlers' = Spawn(Handler("setitem-ack", w, m.key, <<>>, m.queue, "OK", "none"))
    /\ inbox' = [inbox EXCEPT ![w] = Tail(@)]
    /\ last' = ""
    /\ UNCHANGED <<workers, who_has, worker_has, available_workers, active_tasks,
                   queues, th, dag, nreg, acked>>

\* Worker: getitem answers getitem-ack {key, value, queue}
WorkerGetitem(w) ==
    /\ NextFrame(w, "getitem")
    /\ LET m == Head(inbox[w]) IN
        handlers' = Spawn(Handler("getitem-ack", w, m.key, <<>>, m.queue,
                                  IF wdata[w][m.key] = "none" THEN "Error" ELSE "OK",
                                  wdata[w][m.key]))
    /\ inbox' = [inbox EXCEPT ![w] = Tail(@)]
    /\ last' = ""
    /\ UNCHANGED <<workers, who_has, worker_has, available_workers, active_tasks,
                   queues, th, dag, wdata, nreg, acked>>

\* Worker: delitem drops the key, no reply
WorkerDelitem(w) ==
    /\ NextFrame(w, "delitem")
    /\ wdata' = [wdata EXCEPT ![w][Head(inbox[w]).key] = "none"]
    /\ inbox' = [inbox EXCEPT ![w] = Tail(@)]
    /\ last' = ""
    /\ UNCHANGED <<workers, who_has, worker_has, available_workers, active_tasks,
                   queues, th, dag, handlers, nreg, acked>>

\* The value of dep that a worker fetches from the holders named in locations
Fetched(dep, locations) ==
    LET have == {p \in locations[dep] : wdata[p][dep] # "none"}
    IN IF have = {} THEN "none" ELSE wdata[CHOOSE p \in have : TRUE][dep]

\* Worker: compute runs the task, keeps the result and the dependencies it
\* fetched, and answers finished-task {key, dependencies, queue, status}
WorkerCompute(w) ==
    /\ NextFrame(w, "compute")
    /\ LET m == Head(inbox[w]) IN
        /\ wdata' = [wdata EXCEPT ![w] =
                       [k \in Keys |->
                          IF k = m.key THEN "computed"
                          ELSE IF k \in Range(m.deps) /\ @[k] = "none"
                               THEN Fetched(k, m.locations)
                               ELSE @[k]]]
        /\ handlers' = Spawn(Handler("finished-task", w, m.key, m.deps, m.queue,
                                     "OK", "none"))
    /\ inbox' = [inbox EXCEPT ![w] = Tail(@)]
    /\ last' = ""
    /\ UNCHANGED <<workers, who_has, worker_has, available_workers, active_tasks,
                   queues, th, dag, nreg, acked>>

\* The exception that the task of a key raises
TaskError(key) == IF key = "x" THEN "ErrorX" ELSE IF key = "y" THEN "ErrorY" ELSE "ErrorZ"

\* Worker: the task raises; finished-task carries the exception as its status
WorkerComputeFail(w) ==
    /\ NextFrame(w, "compute")
    /\ LET m == Head(inbox[w]) IN
        handlers' = Spawn(Handler("finished-task", w, m.key, m.deps, m.queue,
                                  TaskError(m.key), "none"))
    /\ inbox' = [inbox EXCEPT ![w] = Tail(@)]
    /\ last' = ""
    /\ UNCHANGED <<workers, who_has, worker_has, available_workers, active_tasks,
                   queues, th, dag, wdata, nreg, acked>>

\* ----------------------------------------------------------------- threads
\* The placement index and the queue registry as a call finds them
Snapshot == [who_has |-> who_has, worker_has |-> worker_has, queues |-> queues]

Raise(rec, err) == [rec EXCEPT !.pc = "failed", !.err = err, !.errval = err]
\* qkey = str(uuid.uuid1()): a name no other call uses
QueueName(t) == <<t, th[t].nq + 1>>
AfterScatter(rec) == IF rec.op = "schedule" THEN "sched_check" ELSE "idle"
AfterGather(rec) == IF rec.op = "schedule" THEN "done" ELSE "idle"
AfterRelease(rec, torel) ==
    IF rec.op = "schedule"
    THEN (IF torel # <<>> THEN "release_data" ELSE "fire_test")
    ELSE "idle"

\* scatter, up to its loop: workers = list(self.workers), a fresh queue is
\* registered under a new name; zip() ends at once on no pairs or no workers.
ScatterEnter(t, rec, items) ==
    /\ th' = [th EXCEPT ![t] =
                [rec EXCEPT !.items = items, !.wl = workers, !.wi = 1, !.counter = 0,
                            !.sent = <<>>, !.qkey = QueueName(t), !.nq = @ + 1,
                            !.pc = IF items = <<>> \/ workers = <<>>
                                   THEN "scatter_wait" ELSE "scatter_send"]]
    /\ queues' = Put(queues, QueueName(t), <<>>)

\* scatter's loop body: one setitem to the next worker of the cycle
ScatterSend(t) ==
    /\ th[t].pc = "scatter_send"
    /\ LET rec == th[t]
           kv == Head(rec.items)
       IN /\ inbox' = send_to_worker(rec.wl[rec.wi],
                         Msg("setitem", kv[1], kv[2], rec.qkey, <<>>, EmptyMap))
          /\ th' = [th EXCEPT ![t] =
                      [rec EXCEPT !.items = Tail(@),
                                  !.wi = (rec.wi % Len(rec.wl)) + 1,
                                  !.counter = @ + 1,
                                  !.sent = Append(@, kv[1]),
                                  !.pc = IF Tail(rec.items) = <<>>
                                         THEN "scatter_wait" ELSE "scatter_send"]]
    /\ last' = ""
    /\ UNCHANGED <<workers, who_has, worker_has, available_workers, active_tasks,
                   queues, dag, handlers, wdata, nreg, acked>>

ScatterNoWait(counter) == 0

\* scatter, if block: for i in range(counter): queue.get()
ScatterAwaits(counter) == counter

\* scatter, if block: one queue.get() for each setitem sent, then del self.queues[qkey]
ScatterWait(t) ==
    /\ th[t].pc = "scatter_wait"
    /\ LET rec == th[t] IN
        IF ScatterAwaits(rec.counter) = 0
        THEN /\ queues' = Without(queues, rec.qkey)
             /\ th' = [th EXCEPT ![t] = [rec EXCEPT !.pc = AfterScatter(rec),
                                                     !.qkey = NoQueue]]
             /\ last' = "scatter"
        ELSE /\ queues[rec.qkey] # <<>>
             /\ queues' = [queues EXCEPT ![rec.qkey] = Tail(@)]
             /\ th' = [th EXCEPT ![t] = [rec EXCEPT !.counter = @ - 1]]
             /\ last' = ""
    /\ UNCHANGED <<workers, who_has, worker_has, available_workers, active_tasks,
                   dag, handlers, inbox, wdata, nreg, acked>>

\* gather, up to the requests: a fresh queue is registered
GatherEnter(t, rec, shape) ==
    /\ th' = [th EXCEPT ![t] =
                [rec EXCEPT !.result = shape, !.leaves = flatten(shape), !.n = 0,
                            !.cache = EmptyMap, !.qkey = QueueName(t), !.nq = @ + 1,
                            !.pc = IF flatten(shape) = <<>>
                                   THEN "gather_wait" ELSE "gather_send"]]
    /\ queues' = Put(queues, QueueName(t), <<>>)

\* _gather_send on a leaf: random.choice(list(self.who_has[key])) raises
\* IndexError on an empty holder set, else one getitem goes to the chosen holder
GatherSend(t) ==
    /\ th[t].pc = "gather_send"
    /\ LET rec == th[t]
           k == Head(rec.leaves)
       IN IF who_has[k] = {}
          THEN /\ th' = [th EXCEPT ![t] = Raise(rec, "IndexError")]
               /\ UNCHANGED inbox
          ELSE \E w \in who_has[k] :
               /\ inbox' = send_to_worker(w, Msg("getitem", k, "none", rec.qkey,
                                                 <<>>, EmptyMap))
               /\ th' = [th EXCEPT ![t] =
                           [rec EXCEPT !.leaves = Tail(@), !.n = @ + 1,
                                       !.pc = IF Tail(rec.leaves) = <<>>
                                              THEN "gather_wait" ELSE "gather_send"]]
    /\ last' = ""
    /\ UNCHANGED <<workers, who_has, worker_has, available_workers, active_tasks,
                   queues, dag, handlers, wdata, nreg, acked>>

\* gather: k, v = queue.get(); cache[k] = v
CachePut(cache, kv) == Put(cache, kv[1], kv[2])

\* gather: one queue.get() per leaf into cache, del self.queues[qkey], then
\* core.get(cache, keys)
GatherWait(t) ==
    /\ th[t].pc = "gather_wait"
    /\ LET rec == th[t] IN
        IF rec.n = 0
        THEN /\ queues' = Without(queues, rec.qkey)
             /\ th' = [th EXCEPT ![t] =
                         [rec EXCEPT !.pc = AfterGather(rec), !.qkey = NoQueue,
                                     !.retval = core_get(rec.cache, rec.result)]]
             /\ last' = "gather"
        ELSE /\ queues[rec.qkey] # <<>>
             /\ LET kv == Head(queues[rec.qkey]) IN
                 th' = [th EXCEPT ![t] =
                         [rec EXCEPT !.n = @ - 1, !.cache = CachePut(@, kv)]]
             /\ queues' = [queues EXCEPT ![rec.qkey] = Tail(@)]
             /\ last' = ""
    /\ UNCHANGED <<workers, who_has, worker_has, available_workers, active_tasks,
                   dag, handlers, inbox, wdata, nreg, acked>>

\* release_key, up to its loop: workers = list(self.who_has[key])
ReleaseEnter(rec, key, order, torel) ==
    [rec EXCEPT !.relkey = key, !.relworkers = order, !.torel = torel, !.ndel = 0,
                !.pc = IF order = <<>> THEN AfterRelease(rec, torel) ELSE "release_key"]

\* release_key's loop body: send delitem, then self.who_has[key].remove(worker)
ReleaseSend(t) ==
    /\ th[t].pc = "release_key"
    /\ LET rec == th[t]
           w == Head(rec.relworkers)
       IN /\ inbox' = send_to_worker(w, Msg("delitem", rec.relkey, "none", NoQueue,
                                            <<>>, EmptyMap))
          /\ who_has' = [who_has EXCEPT ![rec.relkey] = @ \ {w}]
          /\ th' = [th EXCEPT ![t] =
                      IF w \in who_has[rec.relkey]
                      THEN [rec EXCEPT !.pc = "release_key2", !.ndel = @ + 1]
                      ELSE Raise([rec EXCEPT !.ndel = @ + 1], "KeyError")]
    /\ last' = ""
    /\ UNCHANGED <<workers, worker_has, available_workers, active_tasks, queues,
                   dag, handlers, wdata, nreg, acked>>

ForgetNothing(has, w, key) == has

Forget(has, w, key) == [has EXCEPT ![w] = @ \ {key}]

\* release_key's loop body: self.worker_has[worker].remove(key)
ReleaseForget(t) ==
    /\ th[t].pc = "release_key2"
    /\ LET rec == th[t]
           w == Head(rec.relworkers)
           rest == Tail(rec.relworkers)
       IN /\ worker_has' = Forget(worker_has, w, rec.relkey)
          /\ IF rec.relkey \notin worker_has[w]
             THEN /\ th' = [th EXCEPT ![t] = Raise(rec, "KeyError")]
                  /\ last' = ""
             ELSE /\ th' = [th EXCEPT ![t] =
                             [rec EXCEPT !.relworkers = rest,
                                         !.pc = IF rest = <<>>
                                                THEN AfterRelease(rec, rec.torel)
                                                ELSE "release_key"]]
                  /\ last' = IF rest = <<>> THEN "release_key" ELSE ""
    /\ UNCHANGED <<workers, who_has, available_workers, active_tasks, queues, dag,
                   handlers, inbox, wdata, nreg, acked>>

\* ---------------------------------------------------------------- schedule
\* The graphs and requested keys that schedule is called with.
Graphs ==
    { [k \in {"x", "y"} |-> IF k = "x" THEN Lit("v1") ELSE Task({"x"})],
      [k \in Keys |-> IF k = "x" THEN Lit("v1") ELSE Task({"x"})],
      [k \in Keys |-> IF k = "x" THEN Lit("v1")
                      ELSE IF k = "y" THEN Task({"x"}) ELSE Task({"y"})],
      [k \in Keys |-> IF k = "z" THEN Task({"x", "y"}) ELSE Task({})],
      [k \in {"x", "y"} |-> Lit("v1")],
      [k \in Keys |-> IF k = "x" THEN Lit("v1")
                      ELSE IF k = "y" THEN Task({"z"}) ELSE Task({"y"})] }

Requests(g) ==
    {Leaf(k) : k \in DOMAIN g} \cup {List([i \in 1..Len(SortKeys(DOMAIN g)) |-> Leaf(SortKeys(DOMAIN g)[i])])}

\* The graphs, on disjoint keys, that two concurrent schedule calls are given
PairGraphs(t) ==
    IF t = "r1"
    THEN { [k \in {"x", "y"} |-> IF k = "x" THEN Lit("v1") ELSE Task({"x"})],
           [k \in {"x", "y"} |-> IF k = "x" THEN Task({}) ELSE Task({"x"})] }
    ELSE { [k \in {"z"} |-> Task({})] }

PairRequest(t) == IF t = "r1" THEN Leaf("y") ELSE Leaf("z")

ResultFlatEmpty(result) == {}

\* schedule, lines 494-498: result_flat, the set of requested keys
ResultFlat(result) == Range(flatten(result))

Items(g) == Perms({<<k, g[k].value>> : k \in CacheKeys(g)})

\* schedule, lines 494-502: result_flat, the DAG state, and the entry of
\* scatter(cache.items())
CallSchedule(t, g, result) ==
    /\ th[t].pc = "idle"
    /\ th[t].calls = 0
    /\ dag' = [dag EXCEPT ![t] = dag_state_from_dask(g)]
    /\ \E items \in Items(g) :
        ScatterEnter(t, [th[t] EXCEPT !.op = "schedule", !.dsk = g, !.result = result,
                                      !.calls = @ + 1,
                                      !.pool0 = Len(available_workers)],
                     items)
    /\ last' = ""
    /\ UNCHANGED <<workers, who_has, worker_has, available_workers, active_tasks,
                   handlers, inbox, wdata, nreg, acked>>

\* schedule, lines 506-511: the check for inaccessible jobs, then the event
\* queue is registered
SchedCheck(t) ==
    /\ th[t].pc = "sched_check"
    /\ LET rec == th[t] IN
        IF DOMAIN dag[t].waiting # {} /\ dag[t].ready = <<>>
        THEN /\ th' = [th EXCEPT ![t] = Raise(rec, "ValueError")]
             /\ UNCHANGED queues
        ELSE /\ th' = [th EXCEPT ![t] = [rec EXCEPT !.eq = QueueName(t), !.nq = @ + 1,
                                                     !.pc = "fire_test"]]
             /\ queues' = Put(queues, QueueName(t), <<>>)
    /\ last' = ""
    /\ UNCHANGED <<workers, who_has, worker_has, available_workers, active_tasks,
                   dag, handlers, inbox, wdata, nreg, acked>>

MainLoopIgnoresRunning(d) == DOMAIN d.waiting # {} \/ d.ready # <<>>

\* schedule, line 528: while dag_state['waiting'] or dag_state['ready'] or
\* dag_state['running']
MainLoopContinues(d) == DOMAIN d.waiting # {} \/ d.ready # <<>> \/ d.running # {}

PopKeepsReady(ready) == ready

\* fire_task, line 517: dag_state['ready'].pop()
PopReady(ready) == SubSeq(ready, 1, Len(ready) - 1)

\* The loops "while dag_state['ready'] and self.available_workers.qsize() > 0:
\* fire_task()" and, when they end, the main loop's condition: fire_task moves
\* the last ready key to running; with nothing waiting, ready or running the
\* call goes on to gather(result).
FireTest(t) ==
    /\ th[t].pc = "fire_test"
    /\ LET rec == th[t]
           d == dag[t]
       IN IF d.ready # <<>> /\ Len(available_workers) > 0
          THEN /\ dag' = [dag EXCEPT ![t] =
                            [d EXCEPT !.ready = PopReady(d.ready),
                                      !.running = @ \cup {d.ready[Len(d.ready)]}]]
               /\ th' = [th EXCEPT ![t] = [rec EXCEPT !.key = d.ready[Len(d.ready)],
                                                       !.pc = "trigger"]]
               /\ UNCHANGED queues
          ELSE IF MainLoopContinues(d)
          THEN /\ th' = [th EXCEPT ![t] = [rec EXCEPT !.pc = "wait_event"]]
               /\ UNCHANGED <<dag, queues>>
          ELSE /\ GatherEnter(t, rec, rec.result)
               /\ UNCHANGED dag
    /\ last' = ""
    /\ UNCHANGED <<workers, who_has, worker_has, available_workers, active_tasks,
                   handlers, inbox, wdata, nreg, acked>>

\* trigger_task, lines 236-244: take the longest-idle worker (blocking), build
\* locations from who_has, send compute
TriggerSend(t) ==
    /\ th[t].pc = "trigger"
    /\ available_workers # <<>>
    /\ LET rec == th[t]
           deps == get_dependencies(rec.dsk, rec.key)
           worker == Head(available_workers)
       IN /\ inbox' = send_to_worker(worker,
                         Msg("compute", rec.key, "none", rec.eq, SortKeys(deps),
                             [dep \in deps |-> who_has[dep]]))
          /\ th' = [th EXCEPT ![t] = [rec EXCEPT !.pc = "trigger_add",
                                                  !.fired = @ \cup {rec.key}]]
    /\ available_workers' = Tail(available_workers)
    /\ last' = ""
    /\ UNCHANGED <<workers, who_has, worker_has, active_tasks, queues, dag,
                   handlers, wdata, nreg, acked>>

\* trigger_task, line 245: self.active_tasks.add(key)
TriggerAdd(t) ==
    /\ th[t].pc = "trigger_add"
    /\ active_tasks' = active_tasks \cup {th[t].key}
    /\ th' = [th EXCEPT ![t].pc = "fire_test"]
    /\ last' = ""
    /\ UNCHANGED <<workers, who_has, worker_has, available_workers, queues, dag,
                   handlers, inbox, wdata, nreg, acked>>

IsFailureNever(status) == FALSE

\* schedule, line 531: isinstance(payload['status'], Exception); the status of
\* a finished-task is 'OK' or the exception the task raised
IsFailure(status) == status # "OK"

\* The main loop's body, lines 529-536: event_queue.get(), the status check,
\* finish_task up to its first call of release_data
WaitEvent(t) ==
    /\ th[t].pc = "wait_event"
    /\ queues[th[t].eq] # <<>>
    /\ LET rec == th[t]
           payload == Head(queues[rec.eq])
           torel == SortKeys(ToRelease(dag[t], rec.dsk, payload.key,
                                       ResultFlat(rec.result)))
       IN IF IsFailure(payload.status)
          THEN /\ th' = [th EXCEPT ![t] = [Raise(rec, "TaskFailure") EXCEPT
                                             !.errval = payload.status]]
               /\ UNCHANGED dag
          ELSE /\ dag' = [dag EXCEPT ![t] = finish_task(dag[t], rec.dsk, payload.key)]
               /\ th' = [th EXCEPT ![t] =
                           [rec EXCEPT !.torel = torel,
                                       !.pc = IF torel = <<>> THEN "fire_test"
                                              ELSE "release_data"]]
    /\ queues' = [queues EXCEPT ![th[t].eq] = Tail(@)]
    /\ last' = ""
    /\ UNCHANGED <<workers, who_has, worker_has, available_workers, active_tasks,
                   handlers, inbox, wdata, nreg, acked>>

\* _release_data: the key leaves waiting_data and joins released, then
\* release_key(key) starts on a snapshot of its holders
ReleaseData(t) ==
    /\ th[t].pc = "release_data"
    /\ LET rec == th[t]
           k == Head(rec.torel)
       IN /\ dag' = [dag EXCEPT ![t] =
                       [@ EXCEPT !.waiting_data = Without(@, k),
                                 !.released = @ \cup {k}]]
          /\ \E order \in Perms(who_has[k]) :
              th' = [th EXCEPT ![t] = ReleaseEnter(rec, k, order, Tail(rec.torel))]
          /\ last' = IF who_has[k] = {} THEN "release_key" ELSE ""
    /\ UNCHANGED <<workers, who_has, worker_has, available_workers, active_tasks,
                   queues, handlers, inbox, wdata, nreg, acked>>

\* schedule_from_client, lines 558-566: the outcome of schedule(dsk, keys) goes
\* to the client as one schedule-ack
ScheduleAck(t) ==
    /\ th[t].op = "schedule"
    /\ th[t].pc \in {"done", "failed"}
    /\ th[t].acks = <<>>
    /\ th' = [th EXCEPT ![t].acks =
                 Append(@, IF th[t].pc = "done"
                           THEN [status |-> "OK", keys |-> th[t].result,
                                 result |-> th[t].retval]
                           ELSE [status |-> "Error", keys |-> th[t].result,
                                 result |-> Leaf(th[t].errval)])]
    /\ last' = ""
    /\ UNCHANGED <<workers, who_has, worker_has, available_workers, active_tasks,
                   queues, dag, handlers, inbox, wdata, nreg, acked>>

\* --------------------------------------------------- calls from other threads
Mappings ==
    { [k \in {"x"} |-> "v1"], [k \in {"y"} |-> "v1"],
      [k \in {"x", "y"} |-> "v2"] }

Shapes ==
    { Leaf("x"), List(<<>>), List(<<List(<<Leaf("y"), Leaf("x")>>), List(<<Leaf("x")>>)>>) }

\* scatter(key_value_pairs, block=True) called on its own
CallScatter(t, m) ==
    /\ th[t].pc = "idle"
    /\ th[t].calls < MaxCalls
    /\ \E items \in Perms({<<k, m[k]>> : k \in DOMAIN m}) :
        ScatterEnter(t, [th[t] EXCEPT !.op = "scatter", !.calls = @ + 1, !.m = m,
                                      !.fresh = \A k \in DOMAIN m : who_has[k] = {},
                                      !.prev = Previous(th[t])], items)
    /\ last' = ""
    /\ UNCHANGED <<workers, who_has, worker_has, available_workers, active_tasks,
                   dag, handlers, inbox, wdata, nreg, acked>>

\* gather(keys) called on its own
CallGather(t, shape) ==
    /\ th[t].pc = "idle"
    /\ th[t].calls < MaxCalls
    /\ GatherEnter(t, [th[t] EXCEPT !.op = "gather", !.calls = @ + 1,
                                     !.prev = Previous(th[t])], shape)
    /\ last' = ""
    /\ UNCHANGED <<workers, who_has, worker_has, available_workers, active_tasks,
                   dag, handlers, inbox, wdata, nreg, acked>>

\* release_key(key) called on its own
CallReleaseKey(t, k) ==
    /\ th[t].pc = "idle"
    /\ th[t].calls < MaxCalls
    /\ \E order \in Perms(who_has[k]) :
        th' = [th EXCEPT ![t] =
                 ReleaseEnter([th[t] EXCEPT !.op = "release_key", !.calls = @ + 1,
                                            !.prev = Previous(th[t]),
                                            !.snap = Snapshot],
                              k, order, <<>>)]
    /\ last' = IF who_has[k] = {} THEN "release_key" ELSE ""
    /\ UNCHANGED <<workers, who_has, worker_has, available_workers, active_tasks,
                   queues, dag, handlers, inbox, wdata, nreg, acked>>

\* ---------------------------------------------------------- specifications
HandlerStep ==
    \E h \in BagToSet(handlers) :
        \/ Register1(h) \/ Register2(h)
        \/ SetitemAck1(h) \/ SetitemAck2(h) \/ SetitemAck3(h)
        \/ GetitemAck(h)

FinishedStep ==
    \E h \in BagToSet(handlers) :
        \/ Finished1(h) \/ Finished2(h) \/ Finished3(h) \/ Finished4(h)
        \/ Finished5(h) \/ Finished6(h) \/ Finished7(h)

WorkerStep ==
    \E w \in Workers :
        \/ WorkerRegister(w) \/ WorkerSetitem(w) \/ WorkerGetitem(w)
        \/ WorkerDelitem(w)

RoutineStep(t) ==
    \/ ScatterSend(t) \/ ScatterWait(t) \/ GatherSend(t) \/ GatherWait(t)
    \/ ReleaseSend(t) \/ ReleaseForget(t)

RunStep(t) ==
    \/ SchedCheck(t) \/ FireTest(t) \/ TriggerSend(t) \/ TriggerAdd(t)
    \/ WaitEvent(t) \/ ReleaseData(t) \/ ScheduleAck(t)

ScheduleStep(t) ==
    \/ \E g \in Graphs : \E result \in Requests(g) : CallSchedule(t, g, result)
    \/ RunStep(t)

PairStep(t) ==
    \/ \E g \in PairGraphs(t) : CallSchedule(t, g, PairRequest(t))
    \/ RunStep(t)

ApiStep(t) ==
    \/ \E m \in Mappings : CallScatter(t, m)
    \/ \E shape \in Shapes : CallGather(t, shape)
    \/ \E k \in {"x", "y"} : CallReleaseKey(t, k)

\* One schedule call, workers that answer every request with OK
NextOK ==
    \/ HandlerStep
    \/ FinishedStep
    \/ WorkerStep
    \/ \E w \in Workers : WorkerCompute(w)
    \/ \E t \in RunThreads : RoutineStep(t) \/ ScheduleStep(t)

SpecOK == Init /\ [][NextOK]_vars

\* One schedule call, workers whose tasks may raise
Next ==
    \/ NextOK
    \/ \E w \in Workers : WorkerComputeFail(w)

Spec == Init /\ [][Next]_vars

\* Two concurrent schedule calls on disjoint graphs, workers that answer every
\* request with OK
NextPair ==
    \/ HandlerStep
    \/ FinishedStep
    \/ WorkerStep
    \/ \E w \in Workers : WorkerCompute(w)
    \/ \E t \in PairThreads : RoutineStep(t) \/ PairStep(t)

SpecPair == Init /\ [][NextPair]_vars

\* scatter, gather and release_key called one after the other by one thread
NextSG ==
    \/ HandlerStep
    \/ WorkerStep
    \/ \E t \in ApiThreads : RoutineStep(t) \/ ApiStep(t)

SpecSG == Init /\ [][NextSG]_vars

\* ------------------------------------------------------------------ claims
IndexConsistent == \A k \in Keys, w \in Workers : w \in who_has[k] <=> k \in worker_has[w]

InProgress(t) == th[t].op = "schedule" /\ th[t].pc \notin {"idle", "done", "failed"}

\* C1: in every state in which worker_registration, setitem_ack,
\* worker_finished_task or release_key has just returned, w is in who_has[k]
\* if and only if k is in worker_has[w], whatever other handlers are running.
C1_ConsistentAfterReturn ==
    last \in {"worker_registration", "setitem_ack", "worker_finished_task", "release_key"}
        => IndexConsistent

\* A thread waits on a queue or on the idle pool
Blocked(t) ==
    \/ th[t].pc = "wait_event" /\ queues[th[t].eq] = <<>>
    \/ th[t].pc = "trigger" /\ available_workers = <<>>
    \/ th[t].pc = "scatter_wait" /\ th[t].counter > 0 /\ queues[th[t].qkey] = <<>>
    \/ th[t].pc = "gather_wait" /\ th[t].n > 0 /\ queues[th[t].qkey] = <<>>

\* No frame is on its way to a worker and no handler is running: nothing more
\* will be put on a queue or on the idle pool
Quiet == handlers = EmptyBag /\ \A w \in Workers : inbox[w] = <<>>

\* C2: a schedule call made with a registered, idle worker, whose workers answer
\* every request with OK, returns: it is never left waiting on its event queue
\* or on the idle pool with nothing in flight that could wake it.
C2_ScheduleReturns ==
    \A t \in RunThreads :
        (th[t].op = "schedule" /\ th[t].wl # <<>> /\ th[t].pool0 > 0)
            => ~(Blocked(t) /\ Quiet)

Satisfied(t, d) ==
    IF th[t].dsk[d].istask THEN d \in dag[t].finished ELSE d \in acked

\* C3: a compute for key k has been sent only if every dependency of k is
\* satisfied: a literal whose setitem-ack was received, or a task that
\* finish_task has processed.
C3_FiredAfterDependencies ==
    \A t \in RunThreads : \A k \in th[t].fired :
        \A d \in get_dependencies(th[t].dsk, k) : Satisfied(t, d)

AtGather(t) ==
    th[t].op = "schedule" /\ th[t].wl # <<>> /\ th[t].pc = "gather_send"

\* C4: when a schedule call that found a registered worker has left its main
\* loop and sends gather's requests, waiting, ready and running are empty and
\* every requested key has a holder.
C4_GatherFindsHolders ==
    \A t \in RunThreads :
        AtGather(t) =>
            /\ DOMAIN dag[t].waiting = {} /\ dag[t].ready = <<>> /\ dag[t].running = {}
            /\ \A k \in ResultFlat(th[t].result) : who_has[k] # {}

C4_Witness ==
    \E t \in RunThreads :
        /\ AtGather(t)
        /\ dag[t].released # {}
        /\ \E k \in ResultFlat(th[t].result) : k \in dag[t].finished

SetsOf(d, k) ==
    {n \in {"waiting", "ready", "running", "released"} :
        \/ n = "waiting" /\ k \in DOMAIN d.waiting
        \/ n = "ready" /\ k \in Range(d.ready)
        \/ n = "running" /\ k \in d.running
        \/ n = "released" /\ k \in d.released}

\* C5 as stated: once the DAG state is built, every key of the graph is in
\* exactly one of waiting, ready, running, released.
C5_ExactlyOneSet ==
    \A t \in RunThreads : dag[t].built =>
        \A k \in DOMAIN th[t].dsk : Cardinality(SetsOf(dag[t], k)) = 1

\* C5 as amended: every key of the graph is in at most one of waiting, ready,
\* running, released, and a key in none of them is a literal or a finished task.
C5_AtMostOneSet ==
    \A t \in RunThreads : dag[t].built =>
        \A k \in DOMAIN th[t].dsk :
            /\ Cardinality(SetsOf(dag[t], k)) <= 1
            /\ SetsOf(dag[t], k) = {} =>
                 (~th[t].dsk[k].istask \/ k \in dag[t].finished)

C5_Witness ==
    \E t \in RunThreads :
        /\ dag[t].built
        /\ \E k \in dag[t].finished : SetsOf(dag[t], k) = {}
        /\ \E k \in DOMAIN th[t].dsk : SetsOf(dag[t], k) = {"released"}
        /\ dag[t].running # {}

\* C6: every key in active_tasks is in the running set of a run in progress.
C6_ActiveTasksRunning ==
    active_tasks \subseteq UNION {dag[t].running : t \in {r \in RunThreads : InProgress(r)}}

\* C7: no worker identity occurs twice in available_workers.
C7_PoolHasNoDuplicates ==
    \A i, j \in 1..Len(available_workers) :
        i # j => available_workers[i] # available_workers[j]

Computes(w) == SelectSeq(inbox[w], LAMBDA m : m.function = "compute")
InFlight ==
    UNION {{<<w, i>> : i \in {j \in 1..Len(inbox[w]) : inbox[w][j].function = "compute"}} :
           w \in Workers}

\* C8: a worker that holds a compute it has not yet answered is not in the idle
\* pool and holds no second compute, and there are no more computes in flight
\* than registered workers.
C8_OneTaskPerWorker ==
    /\ \A w \in Workers :
         Computes(w) # <<>> => (w \notin Range(available_workers) /\ Len(Computes(w)) = 1)
    /\ Cardinality(InFlight) <= Len(workers)

GatherAfterScatter(t) ==
    /\ th[t].op = "gather"
    /\ th[t].prev.op = "scatter"
    /\ th[t].prev.wl # <<>>
    /\ Range(flatten(th[t].result)) \subseteq DOMAIN th[t].prev.m

RoundTrip(t) ==
    /\ th[t].pc # "failed"
    /\ th[t].pc = "idle" => th[t].retval = core_get(th[t].prev.m, th[t].result)

\* C9 as stated: with a registered worker, gather(shape) called after
\* scatter(m, block=True) returns the shape with every key replaced by m[key].
C9_RoundTrip ==
    \A t \in ApiThreads : GatherAfterScatter(t) => RoundTrip(t)

\* C9 as amended: the same, for a scatter of keys that no worker was recorded
\* to hold when scatter was called.
C9_RoundTripFreshKeys ==
    \A t \in ApiThreads : (GatherAfterScatter(t) /\ th[t].prev.fresh) => RoundTrip(t)

C9_Witness ==
    \E t \in ApiThreads :
        /\ GatherAfterScatter(t) /\ th[t].prev.fresh
        /\ th[t].pc = "idle"
        /\ DOMAIN th[t].prev.m = {"x", "y"}
        /\ Len(flatten(th[t].result)) = 3
        /\ Len(th[t].prev.wl) = 2

\* C10: release_key(k) leaves who_has[k] empty and k in no worker_has set, and
\* a second release_key(k) right after it sends no delitem, raises nothing and
\* leaves who_has and worker_has as they were, and consistent.
C10_ReleaseTwice ==
    \A t \in ApiThreads : th[t].op = "release_key" =>
        /\ th[t].pc = "idle" =>
             (who_has[th[t].relkey] = {} /\ \A w \in Workers : th[t].relkey \notin worker_has[w])
        /\ (th[t].prev.op = "release_key" /\ th[t].prev.key = th[t].relkey) =>
             /\ th[t].pc = "idle"
             /\ th[t].ndel = 0
             /\ who_has = th[t].snap.who_has
             /\ worker_has = th[t].snap.worker_has
             /\ IndexConsistent

C10_Witness ==
    \E t \in ApiThreads :
        /\ th[t].op = "release_key" /\ th[t].pc = "idle"
        /\ th[t].prev.op = "release_key" /\ th[t].prev.key = th[t].relkey
        /\ th[t].prev.ndel > 0

\* C11: within one run a key is popped from ready and fired at most once: the
\* key that fire_task pops was never fired and is neither running nor finished,
\* and no key that is running, finished or fired is in ready again.
C11_FiredOnce ==
    [][\A t \in RunThreads :
         /\ (th[t].pc = "fire_test" /\ th'[t].pc = "trigger") =>
              /\ th'[t].key \notin th[t].fired
              /\ th'[t].key \notin dag[t].running \cup dag[t].finished
         /\ Range(dag'[t].ready) \cap
              (dag'[t].running \cup dag'[t].finished \cup th'[t].fired) = {}]_vars

C11_Witness ==
    \E t \in RunThreads :
        /\ th[t].pc = "done"
        /\ Cardinality(th[t].fired) = 3
        /\ Cardinality(Range(th[t].wl)) = 2

Unreachable(d) == DOMAIN d.waiting # {} /\ d.ready = <<>>

\* The placement index and the queue registry as the one schedule call of a
\* behaviour finds them: nothing before it records a holder or registers a queue
NoHolders ==
    /\ who_has = [k \in Keys |-> {}]
    /\ worker_has = [w \in Workers |-> {}]

\* C12: a schedule call whose initial DAG state has tasks waiting and none
\* ready sends no setitem and leaves who_has and worker_has as it found them,
\* and when it has failed the queue registry is as it found it.
C12_CheckBeforeScatter ==
    \A t \in RunThreads :
        (th[t].op = "schedule" /\ Unreachable(dag_state_from_dask(th[t].dsk))) =>
            /\ th[t].sent = <<>>
            /\ NoHolders
            /\ th[t].pc = "failed" => queues = EmptyMap

\* The event that a run waiting on its event queue will dequeue is a failure
FailureAtHead(t) ==
    /\ th[t].pc = "wait_event"
    /\ queues[th[t].eq] # <<>>
    /\ Head(queues[th[t].eq]).status # "OK"

\* C13: when a run dequeues a finished-task event whose status is not OK, the
\* call fails with that status as its error; from then on the run fires no task,
\* and the client is sent at most one schedule-ack, with status "Error" and the
\* error value as its result.
C13_TaskFailureAck ==
    [][\A t \in RunThreads :
         /\ (FailureAtHead(t) /\ th'[t] # th[t]) =>
              /\ th'[t].pc = "failed"
              /\ th'[t].err = "TaskFailure"
              /\ th'[t].errval = Head(queues[th[t].eq]).status
              /\ dag'[t] = dag[t]
         /\ th[t].err = "TaskFailure" =>
              /\ th'[t].pc = "failed"
              /\ th'[t].fired = th[t].fired
              /\ th'[t].errval = th[t].errval
              /\ Len(th'[t].acks) <= 1
              /\ th'[t].acks # <<>> =>
                   /\ th'[t].acks[1].status = "Error"
                   /\ th'[t].acks[1].result = Leaf(th[t].errval)]_vars

C13_Witness ==
    \E t \in RunThreads :
        /\ th[t].err = "TaskFailure"
        /\ th[t].acks # <<>>
        /\ th[t].errval = "ErrorY"
        /\ Cardinality(th[t].fired) = 2
        /\ \E w \in Workers : Computes(w) # <<>>

\* C14: with two concurrent schedule calls on disjoint graphs, every event on a
\* run's event queue is the finished-task payload of a key of this run's graph
\* that this run fired, sent back under this run's queue name.
C14_OwnEventsOnly ==
    \A t \in PairThreads : th[t].eq # NoQueue =>
        \A i \in 1..Len(queues[th[t].eq]) :
            LET e == queues[th[t].eq][i] IN
                /\ e.key \in th[t].fired
                /\ e.key \in DOMAIN th[t].dsk
                /\ e.queue = th[t].eq
                /\ \A u \in PairThreads \ {t} : e.key \notin th[u].fired

C14_Witness ==
    /\ \A t \in PairThreads : th[t].eq # NoQueue /\ queues[th[t].eq] # <<>>
    /\ th["r1"].eq # th["r2"].eq

Starved(t) ==
    /\ th[t].pc = "wait_event"
    /\ queues[th[t].eq] = <<>>
    /\ dag[t].ready # <<>>
    /\ dag[t].running = {}

\* C15: two concurrent schedule calls on disjoint acyclic graphs, each made
\* while a registered worker was idle, with workers that answer OK: no call is
\* left on its event queue with ready tasks, no task in flight, and nothing
\* left that could put an event on its queue.
C15_BothReturn ==
    (\A t \in PairThreads : th[t].op = "schedule" /\ th[t].pool0 > 0) =>
        \A t \in PairThreads :
            ~(/\ Starved(t)
              /\ Quiet
              /\ \A u \in PairThreads \ {t} : th[u].pc \in {"done", "failed"})

\* C16: in every state where no scatter, gather or schedule call is in progress
\* the queue registry is empty: each call has removed the names it registered
\* by the time it has returned or failed.
C16_RegistryEmptyWhenIdle ==
    (\A t \in Threads : th[t].pc \in {"idle", "done", "failed"}) => queues = EmptyMap

\* trigger_task is about to send the compute of a key with an unplaced dependency
FiresWithoutHolder(t) ==
    /\ th[t].pc = "trigger"
    /\ \E d \in get_dependencies(th[t].dsk, th[t].key) : who_has[d] = {}

\* gather is about to request a key that no worker holds
GathersWithoutHolder(t) ==
    /\ th[t].pc = "gather_send"
    /\ who_has[Head(th[t].leaves)] = {}

\* C17: the step that trigger_task takes on a key with a dependency that has no
\* holder, and the step that gather takes on a key that has no holder, fails
\* the run and sends nothing to any worker.
C17_MissingData ==
    [][\A t \in RunThreads :
         ((FiresWithoutHolder(t) \/ GathersWithoutHolder(t)) /\ th'[t] # th[t]) =>
             (th'[t].pc = "failed" /\ inbox' = inbox)]_vars

\* The ingest of a completion event is complete: the key has left active_tasks,
\* the reporting worker is a recorded holder of the key and of each declared
\* dependency, and the handler that reported it is past its put on the idle pool
Ingested(e) ==
    /\ e.key \notin active_tasks
    /\ e.address \in who_has[e.key]
    /\ \A d \in Range(e.dependencies) : e.address \in who_has[d]
    /\ \A h \in BagToSet(handlers) :
         (h.fn = "finished-task" /\ h.key = e.key /\ h.address = e.address) => h.pc > 6

EventsOf(t) == IF th[t].eq = NoQueue THEN {} ELSE Range(queues[th[t].eq])

\* C18: every completion event that a run can dequeue from its event queue has
\* been ingested before it was put there.
C18_EventAfterIngest ==
    \A t \in RunThreads : \A e \in EventsOf(t) : Ingested(e)

C18_Witness ==
    \E t \in RunThreads :
        /\ th[t].pc = "wait_event"
        /\ queues[th[t].eq] # <<>>
        /\ Head(queues[th[t].eq]).dependencies # <<>>
        /\ Head(queues[th[t].eq]).address \notin Range(available_workers)

\* Nothing of the run needs k any more: k is not requested and every task that
\* depends on k has finished
Releasable(t, k) ==
    /\ k \notin Range(flatten(th[t].result))
    /\ dependents(th[t].dsk, k) \subseteq dag[t].finished
    /\ dependents(th[t].dsk, k) \cap
         (DOMAIN dag[t].waiting \cup Range(dag[t].ready) \cup dag[t].running) = {}

\* The keys that a run is about to release, is releasing or has released
ReleaseKeys(t) ==
    dag[t].released
      \cup (IF th[t].pc = "release_data" THEN Range(th[t].torel) ELSE {})
      \cup (IF th[t].pc \in {"release_key", "release_key2"} THEN {th[t].relkey} ELSE {})

\* C19: a run calls _release_data and release_key only on a key that is not
\* requested and whose dependents have all finished; the assertion of
\* _release_data, that waiting_data of the key is empty, holds.
C19_ReleaseOnlyWhenDone ==
    \A t \in RunThreads : th[t].op = "schedule" =>
        /\ \A k \in ReleaseKeys(t) : Releasable(t, k)
        /\ th[t].pc = "release_data" =>
             \A k \in Range(th[t].torel) \cap DOMAIN dag[t].waiting_data :
                 dag[t].waiting_data[k] = {}

C19_Witness ==
    \E t \in RunThreads :
        /\ th[t].op = "schedule" /\ th[t].pc = "release_key2"
        /\ th[t].dsk[th[t].relkey].istask
        /\ Len(th[t].relworkers) = 2

ScatterReturned(t) ==
    /\ last = "scatter"
    /\ th[t].op = "scatter" /\ th[t].pc = "idle"
    /\ th[t].wl # <<>>

\* C20: when scatter(pairs, block=True), called with a registered worker,
\* returns, one setitem has been sent for each pair and every scattered key has
\* a holder in who_has; every key that a setitem-ack has put on scatter's queue
\* has a holder already.
C20_ScatterPlaces ==
    \A t \in ApiThreads :
        /\ ScatterReturned(t) =>
             /\ Len(th[t].sent) = Cardinality(DOMAIN th[t].m)
             /\ Range(th[t].sent) = DOMAIN th[t].m
             /\ \A k \in DOMAIN th[t].m : who_has[k] # {}
        /\ (th[t].pc = "scatter_wait" /\ th[t].qkey \in DOMAIN queues) =>
             \A k \in Range(queues[th[t].qkey]) : who_has[k] # {}

C20_Witness ==
    \E t \in ApiThreads :
        /\ ScatterReturned(t)
        /\ DOMAIN th[t].m = {"x", "y"}
        /\ Len(th[t].wl) = 2
        /\ th[t].prev.op = "release_key"

\* A step in which a finished-task handler runs self.active_tasks.remove(key)
RemoveStep(h) ==
    /\ h.fn = "finished-task" /\ h.pc = 1
    /\ CopiesIn(h, handlers') < CopiesIn(h, handlers)

\* C21: whenever a finished-task handler removes its key from active_tasks the
\* key is there: the removal does not fail and the handler goes on to record
\* the completion.
C21_RemoveNeverFails ==
    [][\A h \in BagToSet(handlers) :
         RemoveStep(h) =>
             /\ h.key \in active_tasks
             /\ BagIn([h EXCEPT !.pc = 2], handlers')]_vars

====
